---- MODULE Spec2Model ----
\* A model of the WhatsApp relay of erys07/hackathon: the inbound webhook
\* handlers (service/webhook.go and the earlier handler kept in
\* service/config.go), the Redis-backed ConversationStore and the Evolution
\* gateway client (service/conversation.go).
\*
\* Strings are sequences of one-character strings: "oi" is <<"o", "i">>.
EXTENDS Integers, Sequences, FiniteSets, TLC

\* ---------------------------------------------------------------- bounds

\* Webhook calls accepted in one behaviour.
MaxEvents == 2

\* ------------------------------------------------------ program constants

\* ConversationStore.maxMessages, set by NewConversationStore.
maxMessages == 20

\* len(payloads) in EvolutionClient.SendAudioMessage.
NumPayloads == 5

\* ----------------------------------------------------------------- strings

IsSpace(c) == c \in {" ", "\t", "\n"}

RECURSIVE TrimLeft(_)
TrimLeft(s) ==
    IF s # <<>> /\ IsSpace(Head(s)) THEN TrimLeft(Tail(s)) ELSE s

RECURSIVE TrimRight(_)
TrimRight(s) ==
    IF s # <<>> /\ IsSpace(s[Len(s)])
    THEN TrimRight(SubSeq(s, 1, Len(s) - 1))
    ELSE s

\* strings.TrimSpace
TrimSpace(s) == TrimRight(TrimLeft(s))

\* strings.IndexByte(s, c): the first index (from 0) of c in s, or -1.
IndexByte(s, c) ==
    IF \E i \in 1..Len(s) : s[i] = c
    THEN (CHOOSE i \in 1..Len(s) : s[i] = c /\ \A j \in 1..(i - 1) : s[j] # c) - 1
    ELSE -1

\* strings.TrimPrefix(s, "+"): one leading '+' is removed.
TrimPrefixPlus(s) == IF s # <<>> /\ Head(s) = "+" THEN Tail(s) ELSE s

\* normalizeWhatsAppID without the removal of the leading '+'.
normalizeKeepsPlus(id) ==
    LET t == TrimSpace(id)
    IN  IF t = <<>> THEN <<>>
        ELSE LET idx == IndexByte(t, "@")
                 u   == IF idx >= 0 THEN SubSeq(t, 1, idx) ELSE t
             IN  TrimSpace(u)

\* normalizeWhatsAppID (webhook.go)
normalizeWhatsAppID(id) ==
    LET t == TrimSpace(id)
    IN  IF t = <<>> THEN <<>>
        ELSE LET idx == IndexByte(t, "@")
                 u   == IF idx >= 0 THEN SubSeq(t, 1, idx) ELSE t
             IN  TrimSpace(TrimPrefixPlus(u))

\* chooseRecipient taking the first value that is non-empty as given.
chooseRecipientFirstRaw(values) ==
    IF \E i \in 1..Len(values) : values[i] # <<>>
    THEN normalizeWhatsAppID(
            values[CHOOSE i \in 1..Len(values) :
                     /\ values[i] # <<>>
                     /\ \A j \in 1..(i - 1) : values[j] = <<>>])
    ELSE <<>>

\* chooseRecipient(values...): the first value whose normalization is
\* non-empty, normalized; "" if there is none.
chooseRecipient(values) ==
    IF \E i \in 1..Len(values) : normalizeWhatsAppID(values[i]) # <<>>
    THEN normalizeWhatsAppID(
            values[CHOOSE i \in 1..Len(values) :
                     /\ normalizeWhatsAppID(values[i]) # <<>>
                     /\ \A j \in 1..(i - 1) : normalizeWhatsAppID(values[j]) = <<>>])
    ELSE <<>>

\* ------------------------------------------------------------ inbound data

\* A Go pointer is a sequence: <<>> is nil, <<v>> points to v.
Nil == <<>>

\* The zero model.WebhookMessage.
ZeroMessage ==
    [From |-> <<>>, Type |-> "", Body |-> <<>>, Text |-> <<>>,
     Conversation |-> <<>>, ExtendedText |-> <<>>,
     ExtendedTextMessage |-> Nil, ButtonsResponseMessage |-> Nil,
     InteractiveResponseMessage |-> Nil, Audio |-> Nil]

\* The zero model.WebhookKey.
ZeroKey == [RemoteJID |-> <<>>, FromMe |-> FALSE]

\* model.MessagesUpsertEntry: a delivery key and a message body.
Entry(key, msg) == [Key |-> key, Message |-> msg]

\* FirstNonBlankTrimmed testing the candidate before it is trimmed.
FirstNonEmptyTrimmed(candidates) ==
    IF \E i \in 1..Len(candidates) : candidates[i] # <<>>
    THEN TrimSpace(
            candidates[CHOOSE i \in 1..Len(candidates) :
                         /\ candidates[i] # <<>>
                         /\ \A j \in 1..(i - 1) : candidates[j] = <<>>])
    ELSE <<>>

\* The first candidate that is non-blank after trimming, trimmed; "" if none.
FirstNonBlankTrimmed(candidates) ==
    IF \E i \in 1..Len(candidates) : TrimSpace(candidates[i]) # <<>>
    THEN TrimSpace(
            candidates[CHOOSE i \in 1..Len(candidates) :
                         /\ TrimSpace(candidates[i]) # <<>>
                         /\ \A j \in 1..(i - 1) : TrimSpace(candidates[j]) = <<>>])
    ELSE <<>>

\* The candidates of extractMessageText in the order the code tries them;
\* a nil pointer contributes none.
TextCandidates(msg) ==
    <<msg.Body, msg.Text, msg.Conversation, msg.ExtendedText>>
    \o (IF msg.ExtendedTextMessage # Nil
        THEN <<msg.ExtendedTextMessage[1].Text>> ELSE <<>>)
    \o (IF msg.ButtonsResponseMessage # Nil
        THEN <<msg.ButtonsResponseMessage[1].SelectedDisplayText,
               msg.ButtonsResponseMessage[1].SelectedButtonID>>
        ELSE <<>>)
    \o (IF msg.InteractiveResponseMessage # Nil
           /\ msg.InteractiveResponseMessage[1].Body # Nil
        THEN <<msg.InteractiveResponseMessage[1].Body[1].Text>> ELSE <<>>)

\* extractMessageText (webhook.go)
extractMessageText(msg) == FirstNonBlankTrimmed(TextCandidates(msg))

\* ------------------------------------------------------ conversation store

User == "user"
Assistant == "assistant"

\* openai.ChatCompletionMessage, the two fields the program sets.
Turn(role, content) == [role |-> role, content |-> content]

\* The value Redis holds under a key: no value, the JSON of a turn list,
\* a zero-length value, or bytes that are not the JSON of a turn list.
Absent == [kind |-> "absent", msgs |-> <<>>]
EmptyBytes == [kind |-> "empty", msgs |-> <<>>]
Garbage == [kind |-> "garbage", msgs |-> <<>>]

\* json.Marshal of a turn list.
Marshal(messages) == [kind |-> "json", msgs |-> messages]

\* json.Unmarshal into a turn list: the list, or a decode error.
Unmarshal(data) ==
    IF data.kind = "json"
    THEN [msgs |-> data.msgs, err |-> "none"]
    ELSE [msgs |-> <<>>, err |-> "decode conversation"]

\* ConversationStore.key
key(user) == <<"conversation:">> \o user

\* The reply of Redis to GET: redis.Nil for a key it does not hold, the
\* bytes for a key it holds, or a transport error.
RedisGet(st, k, fails) ==
    IF fails THEN [err |-> "redis io", data |-> Absent]
    ELSE IF st[k].kind = "absent" THEN [err |-> "redis.Nil", data |-> Absent]
    ELSE [err |-> "none", data |-> st[k]]

\* GetConversation reporting redis.Nil like any other error of the GET.
GetConversationNilIsError(st, user, fails) ==
    LET r == RedisGet(st, key(user), fails)
    IN  IF r.err # "none"
        THEN [msgs |-> <<>>, err |-> r.err]
        ELSE IF r.data.kind = "empty"
             THEN [msgs |-> <<>>, err |-> "none"]
             ELSE Unmarshal(r.data)

\* ConversationStore.GetConversation: (messages, err).
GetConversation(st, user, fails) ==
    LET r == RedisGet(st, key(user), fails)
    IN  IF r.err # "none"
        THEN IF r.err = "redis.Nil"
             THEN [msgs |-> <<>>, err |-> "none"]
             ELSE [msgs |-> <<>>, err |-> r.err]
        ELSE IF r.data.kind = "empty"
             THEN [msgs |-> <<>>, err |-> "none"]
             ELSE Unmarshal(r.data)

\* Truncate with the slice starting one turn too early.
TruncateOffByOne(messages) ==
    IF Len(messages) > maxMessages
    THEN SubSeq(messages, Len(messages) - maxMessages, Len(messages))
    ELSE messages

\* Truncate keeping the oldest turns instead of the newest.
TruncateKeepOldest(messages) ==
    IF Len(messages) > maxMessages
    THEN SubSeq(messages, 1, maxMessages)
    ELSE messages

\* messages[len(messages)-maxMessages:] when len(messages) > maxMessages.
Truncate(messages) ==
    IF Len(messages) > maxMessages
    THEN SubSeq(messages, Len(messages) - maxMessages + 1, Len(messages))
    ELSE messages

\* SaveConversation appending the last exchange to the list the key holds
\* instead of replacing it.
SaveConversationMerges(st, user, messages, fails) ==
    LET exchange == SubSeq(messages, Len(messages) - 1, Len(messages))
        payload  == Marshal(Truncate(st[key(user)].msgs \o exchange))
    IN  IF fails
        THEN [store |-> st, err |-> "redis io"]
        ELSE [store |-> [st EXCEPT ![key(user)] = payload], err |-> "none"]

\* ConversationStore.SaveConversation: the store after the call and err.
\* A failed SET leaves the key as it was.
SaveConversation(st, user, messages, fails) ==
    LET payload == Marshal(Truncate(messages))
    IN  IF fails
        THEN [store |-> st, err |-> "redis io"]
        ELSE [store |-> [st EXCEPT ![key(user)] = payload], err |-> "none"]

\* The lifetime SaveConversation gives a key, in hours (24 * time.Hour).
ttl == 24

\* SetTTL with the lifetime the key had kept (SET ... KEEPTTL).
SetTTLKeeps(lt, user, fails) == lt

\* The hours each key has left after SaveConversation: the SET of a
\* successful save gives the key its full lifetime again.
SetTTL(lt, user, fails) ==
    IF fails THEN lt ELSE [lt EXCEPT ![key(user)] = ttl]

\* ------------------------------------------------------- request handling

\* The request handlers running concurrently (goroutine per request).
Procs == {1, 2}

VARIABLES
    store,   \* Redis: key -> value held
    lifetime, \* Redis: key -> hours the key has left, 0 for a key not held
    proc,    \* per handler goroutine: its position and locals
    events   \* webhook calls accepted so far

vars == <<store, lifetime, proc, events>>

\* The locals of one run of processWebhookMessage / handleIncomingMessage.
\* err is the error the run returned ("none" for nil), calls the external
\* calls it made in order, log the log lines it wrote. held, getFails and
\* loaded are what Redis held under the key when GetConversation ran,
\* whether the GET failed in transport, and the history it returned; resp
\* is the response of the completion capability; transcribeErr, sendErr and
\* synthErr are the errors of the transcription, of the text dispatch and of
\* the speech synthesis.
ZeroCur ==
    [entry |-> Entry(ZeroKey, ZeroMessage), recipient |-> <<>>,
     normalizedID |-> <<>>, userInput |-> <<>>, conversation |-> <<>>,
     request |-> <<>>, reply |-> <<>>, loadErr |-> "none",
     saveErr |-> "none", err |-> "none", calls |-> <<>>, log |-> <<>>,
     idx |-> 0, attempts |-> <<>>, audioErr |-> "none",
     held |-> Absent, getFails |-> FALSE, loaded |-> <<>>,
     resp |-> [err |-> FALSE, choices |-> <<>>], transcribeErr |-> "none",
     sendErr |-> "none", synthErr |-> "none"]

\* No request.
NoRequest == [handler |-> "none", method |-> "", decodable |-> FALSE]

\* An idle goroutine.
Idle ==
    [pc |-> "idle", handler |-> "none", req |-> NoRequest, mode |-> "none",
     sender |-> <<>>,
     queue |-> <<>>, cur |-> ZeroCur, outs |-> <<>>, ret |-> "none",
     status |-> 0]

Called(cur, op) == [cur EXCEPT !.calls = Append(@, op)]
Logged(cur, line) == [cur EXCEPT !.log = Append(@, line)]

\* ProcessPrefix without the return on an empty text.
ProcessPrefixNoTextCheck(sender, entry) ==
    LET text      == extractMessageText(entry.Message)
        recipient == chooseRecipient(<<entry.Key.RemoteJID, entry.Message.From, sender>>)
        id        == normalizeWhatsAppID(recipient)
        cur       == [ZeroCur EXCEPT !.entry = entry, !.userInput = text]
    IN  IF entry.Key.FromMe \/ recipient = <<>> \/ id = <<>>
        THEN [stop |-> TRUE, cur |-> cur]
        ELSE [stop |-> FALSE,
              cur  |-> [cur EXCEPT !.recipient = recipient, !.normalizedID = id]]

\* ProcessPrefix without the return on key.FromMe.
ProcessPrefixNoFromMeCheck(sender, entry) ==
    LET text      == extractMessageText(entry.Message)
        recipient == chooseRecipient(<<entry.Key.RemoteJID, entry.Message.From, sender>>)
        id        == normalizeWhatsAppID(recipient)
        cur       == [ZeroCur EXCEPT !.entry = entry]
    IN  IF text = <<>> THEN [stop |-> TRUE, cur |-> cur]
        ELSE IF recipient = <<>> \/ id = <<>>
             THEN [stop |-> TRUE,
                   cur  |-> [cur EXCEPT !.userInput = text, !.recipient = recipient]]
        ELSE [stop |-> FALSE,
              cur  |-> [cur EXCEPT !.userInput = text, !.recipient = recipient,
                                   !.normalizedID = id]]

\* processWebhookMessage and generateAssistantReply up to the first external
\* call: stop is TRUE when the run returns nil before it.
ProcessPrefix(sender, entry) ==
    LET text      == extractMessageText(entry.Message)
        recipient == chooseRecipient(<<entry.Key.RemoteJID, entry.Message.From, sender>>)
        id        == normalizeWhatsAppID(recipient)
        cur       == [ZeroCur EXCEPT !.entry = entry]
    IN  IF text = <<>> THEN [stop |-> TRUE, cur |-> cur]
        ELSE IF entry.Key.FromMe
             THEN [stop |-> TRUE, cur |-> [cur EXCEPT !.userInput = text]]
        ELSE IF recipient = <<>> \/ id = <<>>
             THEN [stop |-> TRUE,
                   cur  |-> [cur EXCEPT !.userInput = text, !.recipient = recipient]]
        ELSE [stop |-> FALSE,
              cur  |-> [cur EXCEPT !.userInput = text, !.recipient = recipient,
                                   !.normalizedID = id]]

\* The HTTP status the handler answers a processed event with: webhook.go
\* logs the error and writes 200, the earlier handler answers 500.
StatusFor(handler, err) ==
    IF handler = "legacy" /\ err # "none" THEN 500 ELSE 200

\* The loop of handleMessagesUpsert over the entries left, run up to the
\* next external call: self-sent entries are skipped, an entry whose run
\* returns before any call is recorded, and the handler is done when no
\* entry is left.
RECURSIVE RunQueue(_)
RunQueue(rec) ==
    IF rec.queue = <<>>
    THEN [rec EXCEPT !.pc = "done", !.cur = ZeroCur, !.ret = "none",
                     !.status = StatusFor(rec.handler, "none")]
    ELSE LET e    == Head(rec.queue)
             rest == Tail(rec.queue)
         IN  IF rec.mode # "create" /\ e.Key.FromMe
             THEN RunQueue([rec EXCEPT !.queue = rest])
             ELSE LET r == ProcessPrefix(rec.sender, e)
                  IN  IF r.stop
                      THEN RunQueue([rec EXCEPT !.queue = rest,
                                                !.outs = Append(@, r.cur)])
                      ELSE [rec EXCEPT !.queue = rest, !.cur = r.cur,
                                       !.pc = "get"]

\* EndEntry leaving the batch loop with the error of an entry.
EndEntryStopsBatch(rec, cur, err) ==
    LET out == [cur EXCEPT !.err = err]
        r   == [rec EXCEPT !.outs = Append(@, out), !.cur = ZeroCur]
    IN  IF rec.mode = "batch" /\ err = "none"
        THEN RunQueue(r)
        ELSE [r EXCEPT !.pc = "done", !.ret = err,
                       !.status = StatusFor(rec.handler, err)]

\* The current run returns err. In the batch loop the error is logged and
\* the loop goes on; otherwise err is what the handler gets back.
EndEntry(rec, cur, err) ==
    LET out == [cur EXCEPT !.err = err]
        r   == [rec EXCEPT !.outs = Append(@, out), !.cur = ZeroCur]
    IN  IF rec.mode = "batch"
        THEN RunQueue(r)
        ELSE [r EXCEPT !.pc = "done", !.ret = err,
                       !.status = StatusFor(rec.handler, err)]

\* The handler is done with the request: the status it answers and the
\* error its processing function returned.
Answer(rec, status, err) ==
    [rec EXCEPT !.pc = "done", !.status = status, !.ret = err]

\* WebhookHandler of webhook.go from the request to the first external
\* call: method check, decoding, and the switch on the event type.
Dispatch(req) ==
    LET base == [Idle EXCEPT !.handler = "webhook", !.req = req]
    IN  IF req.method # "POST" THEN Answer(base, 405, "none")
        ELSE IF ~req.decodable THEN Answer(base, 400, "none")
        ELSE LET pl   == req.payload
                 data == pl.Data
                 b    == [base EXCEPT !.sender = pl.Sender]
             IN  CASE pl.Event = "messages.upsert" ->
                        IF data.valid /\ Len(data.Messages) > 0
                        THEN RunQueue([b EXCEPT !.mode = "batch",
                                                !.queue = data.Messages])
                        ELSE IF ~data.valid
                        THEN Answer(b, 200, "decode data")
                        ELSE RunQueue([b EXCEPT !.mode = "single",
                                 !.queue = <<Entry(data.Key, data.Message)>>])
                   [] pl.Event = "message_create" ->
                        IF ~data.valid
                        THEN Answer(b, 200, "none")
                        ELSE RunQueue([b EXCEPT !.mode = "create",
                                 !.queue = <<Entry(data.Key, data.Message)>>])
                   [] OTHER -> Answer(b, 200, "none")

\* HandlePrefix without the test of the audio URL.
HandlePrefixNoURLCheck(req) ==
    LET base == [Idle EXCEPT !.handler = "legacy", !.req = req,
                             !.mode = "single"]
    IN  IF req.method # "POST" THEN Answer(base, 405, "none")
        ELSE IF ~req.decodable THEN Answer(base, 400, "none")
        ELSE LET msg   == req.payload.Message
                 input == TrimSpace(msg.Body)
                 cur   == [ZeroCur EXCEPT !.entry = Entry(ZeroKey, msg),
                                          !.recipient = msg.From,
                                          !.userInput = input]
             IN  IF msg.From = <<>>
                 THEN EndEntry(base, cur, "missing sender id")
                 ELSE IF msg.Type = "audio" \/ msg.Type = "ptt"
                 THEN [base EXCEPT !.cur = cur, !.pc = "transcribe"]
                 ELSE IF input = <<>>
                 THEN EndEntry(base, cur, "empty message content")
                 ELSE [base EXCEPT !.cur = cur, !.pc = "chat"]

\* handleIncomingMessage (config.go) from the message to its first
\* external call.
HandlePrefix(req) ==
    LET base == [Idle EXCEPT !.handler = "legacy", !.req = req,
                             !.mode = "single"]
    IN  IF req.method # "POST" THEN Answer(base, 405, "none")
        ELSE IF ~req.decodable THEN Answer(base, 400, "none")
        ELSE LET msg   == req.payload.Message
                 input == TrimSpace(msg.Body)
                 cur   == [ZeroCur EXCEPT !.entry = Entry(ZeroKey, msg),
                                          !.recipient = msg.From,
                                          !.userInput = input]
             IN  IF msg.From = <<>>
                 THEN EndEntry(base, cur, "missing sender id")
                 ELSE IF msg.Type = "audio" \/ msg.Type = "ptt"
                 THEN IF msg.Audio = Nil \/ msg.Audio[1].URL = <<>>
                      THEN EndEntry(base, cur, "audio message missing url")
                      ELSE [base EXCEPT !.cur = cur, !.pc = "transcribe"]
                 ELSE IF input = <<>>
                 THEN EndEntry(base, cur, "empty message content")
                 ELSE [base EXCEPT !.cur = cur, !.pc = "chat"]

\* ----------------------------------------------------------------- inputs

IdA == <<"5">>
IdB == <<"7">>
Oi == <<"o", "i">>

\* Sender keys the requests below resolve to, and their Redis keys.
SenderKeys == {IdA, IdB}
Keys == {key(id) : id \in SenderKeys}

TextEntry(jid, body) ==
    Entry([ZeroKey EXCEPT !.RemoteJID = jid], [ZeroMessage EXCEPT !.Body = body])

SelfSent ==
    Entry([RemoteJID |-> <<"5", "@", "s">>, FromMe |-> TRUE],
          [ZeroMessage EXCEPT !.Body = Oi])

NoData == [valid |-> FALSE, Messages |-> <<>>, Key |-> ZeroKey, Message |-> ZeroMessage]
ObjectData(e) == [valid |-> TRUE, Messages |-> <<>>, Key |-> e.Key, Message |-> e.Message]
ListData(es) == [valid |-> TRUE, Messages |-> es, Key |-> ZeroKey, Message |-> ZeroMessage]

Post(handler, payload) ==
    [handler |-> handler, method |-> "POST", decodable |-> TRUE, payload |-> payload]

Envelope(event, sender, data) == [Event |-> event, Sender |-> sender, Data |-> data]

\* Requests to the handler of webhook.go.
WebhookRequests ==
    { Post("webhook", Envelope("message_create", <<>>,
           ObjectData(Entry([ZeroKey EXCEPT !.RemoteJID = <<"5", "@", "s">>],
                            [ZeroMessage EXCEPT !.Conversation = <<" ", "o", "i">>])))),
      Post("webhook", Envelope("message_create", <<"5">>, ObjectData(SelfSent))),
      Post("webhook", Envelope("messages.upsert", <<>>,
           ObjectData(TextEntry(<<"+", "7">>, Oi)))),
      Post("webhook", Envelope("messages.upsert", <<>>, ObjectData(SelfSent))),
      Post("webhook", Envelope("messages.upsert", <<>>,
           ListData(<<SelfSent, TextEntry(<<"+", "5">>, Oi), TextEntry(<<"7">>, Oi)>>))),
      Post("webhook", Envelope("messages.upsert", <<"5">>,
           ListData(<<SelfSent, SelfSent>>))),
      Post("webhook", Envelope("messages.upsert", <<"5">>,
           ObjectData(TextEntry(<<>>, <<" ">>)))),
      Post("webhook", Envelope("messages.upsert", <<"@", "s">>,
           ObjectData(TextEntry(<<" ">>, Oi)))),
      Post("webhook", Envelope("messages.upsert", <<>>, NoData)),
      Post("webhook", Envelope("message_create", <<>>, NoData)),
      Post("webhook", Envelope("connection.update", <<>>, NoData)),
      [handler |-> "webhook", method |-> "POST", decodable |-> FALSE],
      [handler |-> "webhook", method |-> "GET", decodable |-> FALSE] }

LegacyMessage(from, type, body, audio) ==
    [ZeroMessage EXCEPT !.From = from, !.Type = type, !.Body = body, !.Audio = audio]

\* Requests to the handler of config.go.
LegacyRequests ==
    { Post("legacy", [Message |-> LegacyMessage(<<"5">>, "chat", <<" ", "o", "i">>, Nil)]),
      Post("legacy", [Message |-> LegacyMessage(<<"5">>, "audio", <<>>, <<[URL |-> <<"u">>]>>)]),
      Post("legacy", [Message |-> LegacyMessage(<<"5">>, "ptt", Oi, <<[URL |-> <<>>]>>)]),
      Post("legacy", [Message |-> LegacyMessage(<<"5">>, "audio", Oi, Nil)]),
      Post("legacy", [Message |-> LegacyMessage(<<>>, "chat", Oi, Nil)]),
      Post("legacy", [Message |-> LegacyMessage(<<"5">>, "chat", <<" ">>, Nil)]),
      [handler |-> "legacy", method |-> "POST", decodable |-> FALSE],
      [handler |-> "legacy", method |-> "GET", decodable |-> FALSE] }

\* What the completion capability can answer: an error, no choices, or a
\* first choice with this content.
ChatResponses ==
    { [err |-> TRUE, choices |-> <<>>], [err |-> FALSE, choices |-> <<>>],
      [err |-> FALSE, choices |-> << <<>> >>],
      [err |-> FALSE, choices |-> << <<" ">> >>],
      [err |-> FALSE, choices |-> << <<" ", "o", "k">> >>] }

\* What downloading and transcribing the audio can give.
TranscribeResults ==
    { [err |-> "download audio", text |-> <<>>],
      [err |-> "transcription", text |-> <<>>],
      [err |-> "none", text |-> <<" ">>],
      [err |-> "none", text |-> <<"o", "i", " ">>] }

\* What the gateway can answer a media POST with: a 2xx, the known
\* "owned media must be a url or base64" error, or any other failure.
PostOutcomes == {"2xx", "owned media", "Owned Media", "other"}

\* The history the program holds after n/2 exchanges: User and Assistant
\* turns alternating, each with its own content.
PriorTurn(i) == Turn(IF i % 2 = 1 THEN User ELSE Assistant, <<"t", ToString(i)>>)
Prior(n) == [i \in 1..n |-> PriorTurn(i)]

\* What a key can hold when the process starts: Redis outlives the process,
\* so a key holds nothing, a history this program wrote before, or a value
\* another writer left there.
InitValues == {Absent, Marshal(Prior(maxMessages)), EmptyBytes, Garbage}

\* The system preamble of buildChatReply.
SystemTurn == Turn("system", <<"p">>)

\* ---------------------------------------------------------------- actions

\* A key that is held has some lifetime left; here it was just written.
FullLifetime(st) == [k \in Keys |-> IF st[k].kind = "absent" THEN 0 ELSE ttl]

Init ==
    /\ store \in [Keys -> InitValues]
    /\ lifetime = FullLifetime(store)
    /\ proc = [p \in Procs |-> Idle]
    /\ events = 0

Step(p, rec) == proc' = [proc EXCEPT ![p] = rec]

\* A request reaches WebhookHandler of webhook.go.
WebhookHandler(p, req) ==
    /\ proc[p].pc = "idle"
    /\ events < MaxEvents
    /\ events' = events + 1
    /\ Step(p, Dispatch(req))
    /\ UNCHANGED <<store, lifetime>>

\* LoadHistory returning the error of the load to the caller.
LoadHistoryFatal(p, fails) ==
    LET rec == proc[p]
        r   == GetConversation(store, rec.cur.normalizedID, fails)
        cur == [Called(rec.cur, "redis.Get") EXCEPT
                   !.held = store[key(rec.cur.normalizedID)],
                   !.getFails = fails, !.loaded = r.msgs, !.loadErr = r.err]
    IN  /\ rec.pc = "get"
        /\ Step(p,
             IF r.err # "none" THEN EndEntry(rec, cur, r.err)
             ELSE [rec EXCEPT !.pc = "completion",
                     !.cur = [cur EXCEPT !.conversation =
                                Append(r.msgs, Turn(User, cur.userInput))]])
        /\ UNCHANGED <<store, lifetime, events>>

\* LoadHistory going on, after a failed load, with the turns GetConversation
\* returned beside the error and with those the key holds.
LoadHistoryKeepsOnError(p, fails) ==
    LET rec == proc[p]
        r   == GetConversation(store, rec.cur.normalizedID, fails)
        cur == [Called(rec.cur, "redis.Get") EXCEPT
                   !.held = store[key(rec.cur.normalizedID)],
                   !.getFails = fails, !.loaded = r.msgs]
        c1  == IF r.err # "none"
               THEN [Logged(cur, "conversation load failed") EXCEPT
                        !.loadErr = r.err,
                        !.conversation = store[key(rec.cur.normalizedID)].msgs]
               ELSE [cur EXCEPT !.conversation = r.msgs]
        c2  == [c1 EXCEPT !.conversation = Append(@, Turn(User, cur.userInput))]
    IN  /\ rec.pc = "get"
        /\ Step(p, [rec EXCEPT !.cur = c2, !.pc = "completion"])
        /\ UNCHANGED <<store, lifetime, events>>

\* LoadHistory putting the User turn in front of the loaded history.
LoadHistoryPrepends(p, fails) ==
    LET rec == proc[p]
        r   == GetConversation(store, rec.cur.normalizedID, fails)
        cur == [Called(rec.cur, "redis.Get") EXCEPT
                   !.held = store[key(rec.cur.normalizedID)],
                   !.getFails = fails, !.loaded = r.msgs]
        c1  == IF r.err # "none"
               THEN [Logged(cur, "conversation load failed") EXCEPT
                        !.loadErr = r.err, !.conversation = <<>>]
               ELSE [cur EXCEPT !.conversation = r.msgs]
        c2  == [c1 EXCEPT !.conversation = <<Turn(User, cur.userInput)>> \o @]
    IN  /\ rec.pc = "get"
        /\ Step(p, [rec EXCEPT !.cur = c2, !.pc = "completion"])
        /\ UNCHANGED <<store, lifetime, events>>

\* generateAssistantReply: the history is loaded (an error is logged and the
\* history left empty) and the User turn appended.
LoadHistory(p, fails) ==
    LET rec == proc[p]
        r   == GetConversation(store, rec.cur.normalizedID, fails)
        cur == [Called(rec.cur, "redis.Get") EXCEPT
                   !.held = store[key(rec.cur.normalizedID)],
                   !.getFails = fails, !.loaded = r.msgs]
        c1  == IF r.err # "none"
               THEN [Logged(cur, "conversation load failed") EXCEPT
                        !.loadErr = r.err, !.conversation = <<>>]
               ELSE [cur EXCEPT !.conversation = r.msgs]
        c2  == [c1 EXCEPT !.conversation = Append(@, Turn(User, cur.userInput))]
    IN  /\ rec.pc = "get"
        /\ Step(p, [rec EXCEPT !.cur = c2, !.pc = "completion"])
        /\ UNCHANGED <<store, lifetime, events>>

\* CreateChatCompletion going on to the save without the Assistant turn.
CreateChatCompletionDropsReply(p, resp) ==
    LET rec   == proc[p]
        cur   == [Called(rec.cur, "CreateChatCompletion") EXCEPT
                     !.request = rec.cur.conversation, !.resp = resp]
        reply == TrimSpace(resp.choices[1])
    IN  /\ rec.pc = "completion"
        /\ Step(p,
             IF resp.err THEN EndEntry(rec, cur, "openai error")
             ELSE IF Len(resp.choices) = 0 \/ resp.choices[1] = <<>>
             THEN EndEntry(rec, cur, "none")
             ELSE IF reply = <<>> THEN EndEntry(rec, cur, "none")
             ELSE [rec EXCEPT !.pc = "set", !.cur = [cur EXCEPT !.reply = reply]])
        /\ UNCHANGED <<store, lifetime, events>>

\* CreateChatCompletion going on to the text dispatch without the save.
CreateChatCompletionSkipsSave(p, resp) ==
    LET rec   == proc[p]
        cur   == [Called(rec.cur, "CreateChatCompletion") EXCEPT
                     !.request = rec.cur.conversation, !.resp = resp]
        reply == TrimSpace(resp.choices[1])
    IN  /\ rec.pc = "completion"
        /\ Step(p,
             IF resp.err THEN EndEntry(rec, cur, "openai error")
             ELSE IF Len(resp.choices) = 0 \/ resp.choices[1] = <<>>
             THEN EndEntry(rec, cur, "none")
             ELSE IF reply = <<>> THEN EndEntry(rec, cur, "none")
             ELSE [rec EXCEPT !.pc = "sendText",
                     !.cur = [cur EXCEPT !.reply = reply,
                                !.conversation = Append(@, Turn(Assistant, reply))]])
        /\ UNCHANGED <<store, lifetime, events>>

\* CreateChatCompletion going on to the save when there is no reply.
CreateChatCompletionSavesAnyway(p, resp) ==
    LET rec   == proc[p]
        cur   == [Called(rec.cur, "CreateChatCompletion") EXCEPT
                     !.request = rec.cur.conversation, !.resp = resp]
        reply == TrimSpace(resp.choices[1])
    IN  /\ rec.pc = "completion"
        /\ Step(p,
             IF resp.err THEN EndEntry(rec, cur, "openai error")
             ELSE IF Len(resp.choices) = 0 \/ resp.choices[1] = <<>> \/ reply = <<>>
             THEN [rec EXCEPT !.pc = "set", !.cur = cur]
             ELSE [rec EXCEPT !.pc = "set",
                     !.cur = [cur EXCEPT !.reply = reply,
                                !.conversation = Append(@, Turn(Assistant, reply))]])
        /\ UNCHANGED <<store, lifetime, events>>

\* generateAssistantReply: the completion call and what follows it up to
\* the save.
CreateChatCompletion(p, resp) ==
    LET rec   == proc[p]
        cur   == [Called(rec.cur, "CreateChatCompletion") EXCEPT
                     !.request = rec.cur.conversation, !.resp = resp]
        reply == TrimSpace(resp.choices[1])
    IN  /\ rec.pc = "completion"
        /\ Step(p,
             IF resp.err THEN EndEntry(rec, cur, "openai error")
             ELSE IF Len(resp.choices) = 0 \/ resp.choices[1] = <<>>
             THEN EndEntry(rec, cur, "none")
             ELSE IF reply = <<>> THEN EndEntry(rec, cur, "none")
             ELSE [rec EXCEPT !.pc = "set",
                     !.cur = [cur EXCEPT !.reply = reply,
                                !.conversation = Append(@, Turn(Assistant, reply))]])
        /\ UNCHANGED <<store, lifetime, events>>

\* PersistHistory returning the error of the save instead of the reply.
PersistHistoryFatal(p, fails) ==
    LET rec == proc[p]
        cur == Called(rec.cur, "redis.Set")
        r   == SaveConversation(store, cur.normalizedID, cur.conversation, fails)
    IN  /\ rec.pc = "set"
        /\ store' = r.store
        /\ lifetime' = SetTTL(lifetime, cur.normalizedID, fails)
        /\ Step(p,
             IF r.err # "none"
             THEN EndEntry(rec, [cur EXCEPT !.saveErr = r.err], r.err)
             ELSE [rec EXCEPT !.cur = cur, !.pc = "sendText"])
        /\ UNCHANGED events

\* generateAssistantReply: the history is saved; a failure is logged and the
\* reply returned all the same.
PersistHistory(p, fails) ==
    LET rec == proc[p]
        cur == Called(rec.cur, "redis.Set")
        r   == SaveConversation(store, cur.normalizedID, cur.conversation, fails)
        c1  == IF r.err # "none"
               THEN [Logged(cur, "conversation save failed") EXCEPT !.saveErr = r.err]
               ELSE cur
    IN  /\ rec.pc = "set"
        /\ store' = r.store
        /\ lifetime' = SetTTL(lifetime, cur.normalizedID, fails)
        /\ Step(p, [rec EXCEPT !.cur = c1, !.pc = "sendText"])
        /\ UNCHANGED events

\* processWebhookMessage: the reply is sent as text; the run returns the
\* error of the send.
SendTextMessage(p, fails) ==
    LET rec == proc[p]
        cur == [Called(rec.cur, "sendText") EXCEPT
                   !.sendErr = IF fails THEN "evolution API error" ELSE "none"]
    IN  /\ rec.pc = "sendText"
        /\ rec.handler = "webhook"
        /\ Step(p, EndEntry(rec, cur, cur.sendErr))
        /\ UNCHANGED <<store, lifetime, events>>

\* A request reaches WebhookHandler of config.go.
LegacyWebhookHandler(p, req) ==
    /\ proc[p].pc = "idle"
    /\ events < MaxEvents
    /\ events' = events + 1
    /\ Step(p, HandlePrefix(req))
    /\ UNCHANGED <<store, lifetime>>

\* TranscribeAudio falling back to the message body when the transcription
\* fails.
TranscribeAudioFallback(p, res) ==
    LET rec == proc[p]
        cur == [Called(rec.cur, "transcribe") EXCEPT !.transcribeErr = res.err]
    IN  /\ rec.pc = "transcribe"
        /\ Step(p, [rec EXCEPT !.cur = cur, !.pc = "chat"])
        /\ UNCHANGED <<store, lifetime, events>>

\* handleIncomingMessage: the audio is downloaded and transcribed; the
\* transcription replaces the input.
TranscribeAudio(p, res) ==
    LET rec   == proc[p]
        cur   == [Called(rec.cur, "transcribe") EXCEPT !.transcribeErr = res.err]
        input == TrimSpace(res.text)
    IN  /\ rec.pc = "transcribe"
        /\ Step(p,
             IF res.err # "none" THEN EndEntry(rec, cur, "transcribe audio")
             ELSE IF input = <<>>
             THEN EndEntry(rec, [cur EXCEPT !.userInput = input],
                           "empty message content")
             ELSE [rec EXCEPT !.cur = [cur EXCEPT !.userInput = input],
                              !.pc = "chat"])
        /\ UNCHANGED <<store, lifetime, events>>

\* buildChatReply: (reply, err) for a response of the completion capability.
buildChatReply(resp) ==
    IF resp.err THEN [reply |-> <<>>, err |-> "openai error"]
    ELSE IF Len(resp.choices) = 0
    THEN [reply |-> <<>>, err |-> "chat completion returned no choices"]
    ELSE [reply |-> TrimSpace(resp.choices[1]), err |-> "none"]

\* handleIncomingMessage: the completion call; an error of buildChatReply
\* is returned wrapped as "chat completion: ...".
BuildChatReply(p, resp) ==
    LET rec == proc[p]
        cur == [Called(rec.cur, "CreateChatCompletion") EXCEPT
                   !.request = <<SystemTurn, Turn(User, rec.cur.userInput)>>,
                   !.resp = resp]
        r   == buildChatReply(resp)
    IN  /\ rec.pc = "chat"
        /\ Step(p,
             IF r.err # "none" THEN EndEntry(rec, cur, "chat completion")
             ELSE [rec EXCEPT !.cur = [cur EXCEPT !.reply = r.reply],
                              !.pc = "sendText"])
        /\ UNCHANGED <<store, lifetime, events>>

\* LegacySendTextMessage going on to the audio reply after a failed send.
LegacySendTextIgnoresFailure(p, fails) ==
    LET rec == proc[p]
        cur == [Called(rec.cur, "sendText") EXCEPT
                   !.sendErr = IF fails THEN "evolution API error" ELSE "none"]
    IN  /\ rec.pc = "sendText"
        /\ rec.handler = "legacy"
        /\ Step(p, [rec EXCEPT !.cur = cur, !.pc = "synth"])
        /\ UNCHANGED <<store, lifetime, events>>

\* handleIncomingMessage: the reply is sent as text; a failure ends the run.
LegacySendTextMessage(p, fails) ==
    LET rec == proc[p]
        cur == [Called(rec.cur, "sendText") EXCEPT
                   !.sendErr = IF fails THEN "evolution API error" ELSE "none"]
    IN  /\ rec.pc = "sendText"
        /\ rec.handler = "legacy"
        /\ Step(p,
             IF fails THEN EndEntry(rec, cur, "send text")
             ELSE [rec EXCEPT !.cur = cur, !.pc = "synth"])
        /\ UNCHANGED <<store, lifetime, events>>

\* SynthesizeAudio returning the synthesis error to the handler.
SynthesizeAudioFatal(p, fails) ==
    LET rec == proc[p]
        cur == [Called(rec.cur, "CreateSpeech") EXCEPT
                   !.synthErr = IF fails THEN "speech" ELSE "none"]
    IN  /\ rec.pc = "synth"
        /\ Step(p,
             IF fails
             THEN EndEntry(rec, cur, "synthesize audio")
             ELSE [rec EXCEPT !.cur = [cur EXCEPT !.idx = 0], !.pc = "sendAudio"])
        /\ UNCHANGED <<store, lifetime, events>>

\* handleIncomingMessage: the reply is synthesized; a failure is logged and
\* the run returns nil.
SynthesizeAudio(p, fails) ==
    LET rec == proc[p]
        cur == [Called(rec.cur, "CreateSpeech") EXCEPT
                   !.synthErr = IF fails THEN "speech" ELSE "none"]
    IN  /\ rec.pc = "synth"
        /\ Step(p,
             IF fails
             THEN EndEntry(rec, Logged(cur, "audio synthesis failed"), "none")
             ELSE [rec EXCEPT !.cur = [cur EXCEPT !.idx = 0], !.pc = "sendAudio"])
        /\ UNCHANGED <<store, lifetime, events>>

\* strings.ToLower of the error messages the gateway is made to answer.
ToLowerMsg(errMsg) == IF errMsg = "Owned Media" THEN "owned media" ELSE errMsg

\* The test of SendAudioMessage on the text of a failed POST: lower-cased,
\* it contains "owned media must be a url or base64".
IsOwnedMediaError(errMsg) == ToLowerMsg(errMsg) = "owned media"

\* AfterPost going on to the next shape after a failure of any class.
AfterPostRetryAny(idx, outcome) ==
    IF outcome = "2xx" THEN [do |-> "return", err |-> "none"]
    ELSE IF idx = NumPayloads - 1
    THEN [do |-> "return", err |-> outcome]
    ELSE [do |-> "next", err |-> outcome]

\* AfterPost without the test for the last shape: the loop runs out and the
\* final "return nil" is reached.
AfterPostFallsThrough(idx, outcome) ==
    IF outcome = "2xx" THEN [do |-> "return", err |-> "none"]
    ELSE IF ~IsOwnedMediaError(outcome)
    THEN [do |-> "return", err |-> outcome]
    ELSE IF idx = NumPayloads - 1
    THEN [do |-> "return", err |-> "none"]
    ELSE [do |-> "next", err |-> outcome]

\* SendAudioMessage after the POST of payload shape idx was answered with
\* outcome: "return" with the error it returns, or "next" for the next shape.
AfterPost(idx, outcome) ==
    IF outcome = "2xx" THEN [do |-> "return", err |-> "none"]
    ELSE IF ~IsOwnedMediaError(outcome) \/ idx = NumPayloads - 1
    THEN [do |-> "return", err |-> outcome]
    ELSE [do |-> "next", err |-> outcome]

\* PostAudioPayload returning the error of SendAudioMessage to the handler.
PostAudioPayloadFatal(p, outcome) ==
    LET rec == proc[p]
        cur == [Called(rec.cur, "sendMedia") EXCEPT
                   !.attempts = Append(@, [shape |-> rec.cur.idx, outcome |-> outcome])]
        a   == AfterPost(rec.cur.idx, outcome)
    IN  /\ rec.pc = "sendAudio"
        /\ Step(p,
             IF a.do = "next"
             THEN [rec EXCEPT !.cur = [cur EXCEPT !.idx = @ + 1]]
             ELSE EndEntry(rec, [cur EXCEPT !.audioErr = a.err],
                           IF a.err # "none" THEN "send audio" ELSE "none"))
        /\ UNCHANGED <<store, lifetime, events>>

\* One round of the loop of SendAudioMessage; when it returns,
\* handleIncomingMessage logs its error and returns nil.
PostAudioPayload(p, outcome) ==
    LET rec == proc[p]
        cur == [Called(rec.cur, "sendMedia") EXCEPT
                   !.attempts = Append(@, [shape |-> rec.cur.idx, outcome |-> outcome])]
        a   == AfterPost(rec.cur.idx, outcome)
    IN  /\ rec.pc = "sendAudio"
        /\ Step(p,
             IF a.do = "next"
             THEN [rec EXCEPT !.cur = [cur EXCEPT !.idx = @ + 1]]
             ELSE EndEntry(rec,
                    IF a.err # "none"
                    THEN [Logged(cur, "send audio failed") EXCEPT !.audioErr = a.err]
                    ELSE cur,
                    "none"))
        /\ UNCHANGED <<store, lifetime, events>>

\* The handler has answered; its goroutine ends.
Respond(p) ==
    /\ proc[p].pc = "done"
    /\ Step(p, Idle)
    /\ UNCHANGED <<store, lifetime, events>>

\* The TTL of a key runs out: Redis drops the key.
Expire(k) ==
    /\ store[k].kind # "absent"
    /\ store' = [store EXCEPT ![k] = Absent]
    /\ lifetime' = [lifetime EXCEPT ![k] = 0]
    /\ UNCHANGED <<proc, events>>

\* One request at a time, of every kind, to either handler.
Next ==
    \E p \in {1} :
        \/ \E req \in WebhookRequests : WebhookHandler(p, req)
        \/ \E fails \in BOOLEAN : LoadHistory(p, fails)
        \/ \E resp \in ChatResponses : CreateChatCompletion(p, resp)
        \/ \E fails \in BOOLEAN : PersistHistory(p, fails)
        \/ \E fails \in BOOLEAN : SendTextMessage(p, fails)
        \/ \E req \in LegacyRequests : LegacyWebhookHandler(p, req)
        \/ \E res \in TranscribeResults : TranscribeAudio(p, res)
        \/ \E resp \in ChatResponses : BuildChatReply(p, resp)
        \/ \E fails \in BOOLEAN : LegacySendTextMessage(p, fails)
        \/ \E fails \in BOOLEAN : SynthesizeAudio(p, fails)
        \/ \E outcome \in PostOutcomes : PostAudioPayload(p, outcome)
        \/ Respond(p)
        \/ \E k \in Keys : Expire(k)

Spec == Init /\ [][Next]_vars

\* Requests handled by two goroutines at once: text messages of the two
\* senders and a self-sent one.
ConcurrentRequests ==
    { Post("webhook", Envelope("message_create", <<>>,
           ObjectData(Entry([ZeroKey EXCEPT !.RemoteJID = <<"5", "@", "s">>],
                            [ZeroMessage EXCEPT !.Conversation = <<" ", "o", "i">>])))),
      Post("webhook", Envelope("messages.upsert", <<>>,
           ObjectData(TextEntry(<<"+", "7">>, Oi)))),
      Post("webhook", Envelope("messages.upsert", <<>>,
           ObjectData(TextEntry(<<"5">>, <<"h", "i">>)))),
      Post("webhook", Envelope("messages.upsert", <<>>, ObjectData(SelfSent))) }

InitConcurrent ==
    /\ store \in [Keys -> {Absent, Marshal(Prior(maxMessages))}]
    /\ lifetime = FullLifetime(store)
    /\ proc = [p \in Procs |-> Idle]
    /\ events = 0

\* The handler of webhook.go serving requests in two goroutines, their
\* calls to Redis, the completion capability and the gateway interleaved.
NextConcurrent ==
    \E p \in Procs :
        \/ \E req \in ConcurrentRequests : WebhookHandler(p, req)
        \/ \E fails \in BOOLEAN : LoadHistory(p, fails)
        \/ \E resp \in ChatResponses : CreateChatCompletion(p, resp)
        \/ \E fails \in BOOLEAN : PersistHistory(p, fails)
        \/ \E fails \in BOOLEAN : SendTextMessage(p, fails)
        \/ Respond(p)

SpecConcurrent == InitConcurrent /\ [][NextConcurrent]_vars

\* The longest raw id drawn from the whole alphabet.
MaxIdLen == 3

\* The bytes that normalizeWhatsAppID tells apart: a space, the '+' prefix,
\* the '@' of a domain suffix, and any other byte.
IdAlphabet == {" ", "+", "@", "5"}

\* Every string over the alphabet of at most n bytes.
StringsUpTo(alphabet, n) == UNION {[1..k -> alphabet] : k \in 0..n}

\* Ids without '+', '@' or spaces.
BareIds == {<<"5">>, <<"5", "7">>}

\* The raw forms a gateway gives a bare id d: with or without '+', with or
\* without a domain suffix, with or without spaces around.
RawForms(d) ==
    {ws1 \o plus \o d \o suffix \o ws2 :
        ws1 \in {<<>>, <<" ">>}, plus \in {<<>>, <<"+">>},
        suffix \in {<<>>, <<"@">>, <<"@", "s">>}, ws2 \in {<<>>, <<" ">>}}

RawIds == StringsUpTo(IdAlphabet, MaxIdLen) \cup UNION {RawForms(d) : d \in BareIds}

\* The three identity fields processWebhookMessage reads.
IdFields == {"key.remoteJid", "message.from", "sender"}

\* A message_create with the text "oi" whose only identity field is x.
IdRequest(field, x) ==
    Post("webhook", Envelope("message_create",
         IF field = "sender" THEN x ELSE <<>>,
         ObjectData(Entry(
            [ZeroKey EXCEPT !.RemoteJID = IF field = "key.remoteJid" THEN x ELSE <<>>],
            [ZeroMessage EXCEPT !.Body = Oi,
                                !.From = IF field = "message.from" THEN x ELSE <<>>]))))

IdRequests == {IdRequest(field, x) : field \in IdFields, x \in RawIds}

\* A message_create with the text "oi" and the three identity fields given.
RecipientRequest(remoteJid, from, sender) ==
    Post("webhook", Envelope("message_create", sender,
         ObjectData(Entry([ZeroKey EXCEPT !.RemoteJID = remoteJid],
                          [ZeroMessage EXCEPT !.Body = Oi, !.From = from]))))

\* Each field empty, non-empty with an empty normalization, or an id of its
\* own.
RecipientRequests ==
    {RecipientRequest(remoteJid, from, sender) :
        remoteJid \in {<<>>, <<"@", "s">>, <<"+", "5", "@", "s">>},
        from \in {<<>>, <<" ">>, <<"6">>},
        sender \in {<<>>, <<"+">>, <<"7">>}}

\* A text field: empty, blank, or a letter of its own inside spaces.
TextValues(c) == {<<>>, <<" ">>, <<" ", c, " ">>}

\* A text field behind a pointer that is not nil.
NestedValues(c) == {<<" ">>, <<" ", c, " ">>}

\* Messages whose text fields, flat and nested, are each empty, blank or
\* set, and whose pointers are nil or not.
TextMessages ==
    {[ZeroMessage EXCEPT
        !.Body = body, !.Text = text, !.Conversation = conv,
        !.ExtendedText = ext, !.ExtendedTextMessage = etm,
        !.ButtonsResponseMessage = brm, !.InteractiveResponseMessage = irm] :
        body \in TextValues("b"), text \in TextValues("t"),
        conv \in TextValues("c"), ext \in TextValues("e"),
        etm \in {Nil} \cup {<<[Text |-> v]>> : v \in NestedValues("x")},
        brm \in {Nil} \cup {<<[SelectedDisplayText |-> v, SelectedButtonID |-> w]>> :
                                v \in NestedValues("d"), w \in NestedValues("i")},
        irm \in {Nil, <<[Body |-> Nil]>>}
                \cup {<<[Body |-> <<[Text |-> v]>>]>> : v \in NestedValues("y")}}

\* A messages.upsert of one entry from the sender 5 with the message given.
TextRequests ==
    {Post("webhook", Envelope("messages.upsert", <<>>,
          ObjectData(Entry([ZeroKey EXCEPT !.RemoteJID = IdA], msg)))) :
        msg \in TextMessages}

\* Requests whose identity and text fields range over bounded strings.
InputRequests == IdRequests \cup RecipientRequests \cup TextRequests

InitInputs ==
    /\ store = [k \in Keys |-> Absent]
    /\ lifetime = FullLifetime(store)
    /\ proc = [p \in Procs |-> Idle]
    /\ events = 0

\* The handler of webhook.go applied to the requests above, up to the point
\* where it has resolved the text and the sender of each entry.
NextInputs ==
    \E p \in {1} :
        \/ \E req \in InputRequests : WebhookHandler(p, req)
        \/ Respond(p)

SpecInputs == InitInputs /\ [][NextInputs]_vars

\* Values of the type field: the two the code names, in several casings, and
\* another one.
MessageTypes == {"audio", "ptt", "AUDIO", "Audio", "PTT", "Ptt", "chat"}

\* Messages to the handler of config.go of every type, with and without a
\* body, with the audio absent, without a URL, or with one.
KindRequests ==
    {Post("legacy", [Message |-> LegacyMessage(<<"5">>, type, body, audio)]) :
        type \in MessageTypes, body \in {<<>>, Oi},
        audio \in {Nil, <<[URL |-> <<>>]>>, <<[URL |-> <<"u">>]>>}}

\* The handler of config.go applied to the messages above.
NextKinds ==
    \E p \in {1} :
        \/ \E req \in KindRequests : LegacyWebhookHandler(p, req)
        \/ \E res \in TranscribeResults : TranscribeAudio(p, res)
        \/ \E resp \in ChatResponses : BuildChatReply(p, resp)
        \/ \E fails \in BOOLEAN : LegacySendTextMessage(p, fails)
        \/ \E fails \in BOOLEAN : SynthesizeAudio(p, fails)
        \/ \E outcome \in PostOutcomes : PostAudioPayload(p, outcome)
        \/ Respond(p)

SpecKinds == InitInputs /\ [][NextKinds]_vars

\* An hour passes: every key held has an hour less to live, and Redis drops
\* the keys whose lifetime is over.
Tick ==
    /\ \E k \in Keys : lifetime[k] > 0
    /\ lifetime' = [k \in Keys |-> IF lifetime[k] > 0 THEN lifetime[k] - 1 ELSE 0]
    /\ store' = [k \in Keys |-> IF lifetime[k] = 1 THEN Absent ELSE store[k]]
    /\ UNCHANGED <<proc, events>>

\* Text messages of the two senders.
TTLRequests ==
    { Post("webhook", Envelope("message_create", <<>>,
           ObjectData(Entry([ZeroKey EXCEPT !.RemoteJID = <<"5", "@", "s">>],
                            [ZeroMessage EXCEPT !.Conversation = <<" ", "o", "i">>])))),
      Post("webhook", Envelope("messages.upsert", <<>>,
           ObjectData(TextEntry(<<"+", "7">>, Oi)))) }

\* The sender 5 has a history that was saved up to a day ago; the sender 7
\* has none.
InitTTL ==
    /\ store = [k \in Keys |-> IF k = key(IdA) THEN Marshal(Prior(2)) ELSE Absent]
    /\ \E h \in 1..ttl : lifetime = [k \in Keys |-> IF k = key(IdA) THEN h ELSE 0]
    /\ proc = [p \in Procs |-> Idle]
    /\ events = 0

\* The handler of webhook.go, one request at a time, while the hours pass.
NextTTL ==
    \/ \E p \in {1} :
          \/ \E req \in TTLRequests : WebhookHandler(p, req)
          \/ \E fails \in BOOLEAN : LoadHistory(p, fails)
          \/ \E resp \in ChatResponses : CreateChatCompletion(p, resp)
          \/ \E fails \in BOOLEAN : PersistHistory(p, fails)
          \/ \E fails \in BOOLEAN : SendTextMessage(p, fails)
          \/ Respond(p)
    \/ Tick

SpecTTL == InitTTL /\ [][NextTTL]_vars

\* ------------------------------------------------------------- properties

\* The runs of processWebhookMessage / handleIncomingMessage that goroutine
\* p has finished for its request, and the one it is in.
Finished(p) == {proc[p].outs[i] : i \in 1..Len(proc[p].outs)}
Current(p) == IF proc[p].pc \in {"idle", "done"} THEN {} ELSE {proc[p].cur}
Runs(p) == Finished(p) \cup Current(p)

Has(run, op) == \E i \in 1..Len(run.calls) : run.calls[i] = op

\* C1: whatever the two goroutines do and however their loads and saves
\* interleave, every history held in the store has at most 20 turns.
C1_StoredHistoryAtMostCap ==
    \A k \in Keys : store[k].kind = "json" => Len(store[k].msgs) <= 20

\* A save of a 22-turn conversation has happened: the key holds 20 turns,
\* the last of them the reply just given.
C1_Witness ==
    \E p \in Procs :
        /\ proc[p].pc = "sendText"
        /\ proc[p].cur.saveErr = "none"
        /\ Len(proc[p].cur.conversation) = 22
        /\ Len(store[key(proc[p].cur.normalizedID)].msgs) = 20

\* C2: a successful save of a conversation of L turns leaves under the key
\* its last 20 turns in their order when L > 20, and all of it otherwise.
C2_SaveKeepsNewestTurns ==
    [][\A p \in Procs :
          (/\ proc[p].pc = "set"
           /\ proc'[p].pc = "sendText"
           /\ proc'[p].cur.saveErr = "none")
          => LET input  == proc[p].cur.conversation
                 L      == Len(input)
                 stored == store'[key(proc[p].cur.normalizedID)]
             IN  /\ stored.kind = "json"
                 /\ IF L > 20
                    THEN /\ Len(stored.msgs) = 20
                         /\ \A i \in 1..20 : stored.msgs[i] = input[L - 20 + i]
                    ELSE stored.msgs = input]_vars

\* A 22-turn conversation was saved and the key holds its turns 3 to 22,
\* the two oldest gone and the new reply last.
C2_Witness ==
    \E p \in Procs :
        LET c == proc[p].cur
            m == store[key(c.normalizedID)].msgs
        IN  /\ proc[p].pc = "sendText"
            /\ c.saveErr = "none"
            /\ Len(c.conversation) = 22
            /\ m = SubSeq(c.conversation, 3, 22)
            /\ m[1] = PriorTurn(3)
            /\ m[20] = Turn(Assistant, c.reply)

\* C3: a run whose text dispatch failed has ended there with an error: the
\* failed dispatch is its last call, and it made no speech synthesis and
\* no audio dispatch.
C3_TextFailureEndsRun ==
    \A p \in Procs :
        /\ \A run \in Current(p) : run.sendErr = "none"
        /\ \A run \in Finished(p) :
              run.sendErr # "none"
              => /\ run.err # "none"
                 /\ run.calls[Len(run.calls)] = "sendText"
                 /\ ~Has(run, "CreateSpeech")
                 /\ ~Has(run, "sendMedia")
        /\ (proc[p].pc = "done" /\ proc[p].mode # "batch"
            /\ \E run \in Finished(p) : run.sendErr # "none")
           => proc[p].ret # "none"

\* handleIncomingMessage has returned after a failed text dispatch.
C3_Witness ==
    \E p \in Procs :
        /\ proc[p].handler = "legacy"
        /\ proc[p].pc = "done"
        /\ \E run \in Finished(p) :
              run.sendErr # "none" /\ run.err = "send text"

\* C4: when the text was delivered and the speech synthesis failed, the run
\* returns no error, the handler answers 200, and no audio is dispatched.
C4_SynthesisFailureIsSuccess ==
    \A p \in Procs :
        /\ \A run \in Current(p) : run.synthErr = "none"
        /\ \A run \in Finished(p) :
              run.synthErr # "none"
              => /\ run.sendErr = "none" /\ Has(run, "sendText")
                 /\ run.err = "none"
                 /\ ~Has(run, "sendMedia")
                 /\ proc[p].pc = "done" /\ proc[p].ret = "none"
                 /\ proc[p].status = 200

\* The speech synthesis has failed after a delivered text.
C4_Witness ==
    \E p \in Procs : \E run \in Finished(p) :
        /\ run.synthErr # "none"
        /\ run.calls = <<"CreateChatCompletion", "sendText", "CreateSpeech">>

\* C5: a run that delivered its text returns no error whatever the audio
\* step did: whichever payload shape the audio dispatch failed on and for
\* whichever reason, the handler answers 200.
C5_AudioFailureIsSuccess ==
    \A p \in Procs : \A run \in Finished(p) :
        /\ (Has(run, "sendText") /\ run.sendErr = "none") => run.err = "none"
        /\ run.audioErr # "none"
           => /\ Has(run, "sendMedia")
              /\ run.err = "none"
              /\ proc[p].pc = "done" /\ proc[p].ret = "none"
              /\ proc[p].status = 200

\* The audio dispatch has failed on the last payload shape after four
\* rejected shapes.
C5_Witness ==
    \E p \in Procs : \E run \in Finished(p) :
        /\ run.audioErr = "owned media"
        /\ Len(run.attempts) = 5
        /\ run.synthErr = "none"
        /\ run.sendErr = "none"

\* C6: a run whose transcription failed has ended there with an error: the
\* transcription is its only call, so there was no completion call, no
\* save, no text dispatch and no audio dispatch, and the handler answers
\* 500.
C6_TranscriptionFailureAborts ==
    \A p \in Procs :
        /\ \A run \in Current(p) : run.transcribeErr = "none"
        /\ \A run \in Finished(p) :
              run.transcribeErr # "none"
              => /\ run.err = "transcribe audio"
                 /\ run.calls = <<"transcribe">>
                 /\ proc[p].pc = "done" /\ proc[p].ret = "transcribe audio"
                 /\ proc[p].status = 500

\* The download of the audio of an audio message has failed.
C6_Witness ==
    \E p \in Procs : \E run \in Finished(p) :
        /\ run.entry.Message.Type = "audio"
        /\ run.transcribeErr = "download audio"

\* Whether the record the handler of goroutine p normalizes for a run is
\* unusable. For webhook.go: the text is that of the first non-blank text
\* candidate, the sender the first of delivery-key remote id, message
\* sender and envelope sender that normalizes to a non-empty id. For
\* config.go: the sender is From, the kind Audio for the types "audio" and
\* "ptt", the text the trimmed body.
IsAudioKind(msg) == msg.Type \in {"audio", "ptt"}

Unusable(p, run) ==
    LET msg == run.entry.Message
    IN  IF proc[p].handler = "legacy"
        THEN \/ msg.From = <<>>
             \/ ~IsAudioKind(msg) /\ TrimSpace(msg.Body) = <<>>
             \/ IsAudioKind(msg) /\ (msg.Audio = Nil \/ msg.Audio[1].URL = <<>>)
        ELSE \/ \A i \in 1..Len(TextCandidates(msg)) :
                    TrimSpace(TextCandidates(msg)[i]) = <<>>
             \/ \A id \in {run.entry.Key.RemoteJID, msg.From, proc[p].sender} :
                    normalizeWhatsAppID(id) = <<>>

NoReply(run) ==
    /\ Has(run, "CreateChatCompletion")
    /\ ~run.resp.err
    /\ \/ run.resp.choices = <<>>
       \/ TrimSpace(run.resp.choices[1]) = <<>>

\* C8: a run that got no reply from the completion capability ends there,
\* with no error and with nothing sent through the gateway.
C8_NoReplySendsNothing ==
    \A p \in Procs :
        /\ \A run \in Current(p) : ~NoReply(run)
        /\ \A run \in Finished(p) :
              NoReply(run)
              => /\ run.err = "none"
                 /\ ~Has(run, "sendText")
                 /\ ~Has(run, "sendMedia")

\* C9: a run whose load failed goes on with an empty history: the
\* completion capability is called with the new User turn alone, a reply
\* is dispatched as text, the failure is logged, and the error the run
\* returns is never that of the load.
LoadErrors == {"redis io", "decode conversation"}

C9_LoadFailureDegradesToEmpty ==
    \A p \in Procs :
        /\ \A run \in Runs(p) :
              run.loadErr # "none"
              => /\ run.loadErr \in LoadErrors
                 /\ run.err \notin LoadErrors
                 /\ \E i \in 1..Len(run.log) : run.log[i] = "conversation load failed"
                 /\ Has(run, "CreateChatCompletion")
                    => run.request = <<Turn(User, run.userInput)>>
        /\ \A run \in Current(p) :
              run.loadErr # "none" => proc[p].pc \in {"completion", "set", "sendText"}
        /\ \A run \in Finished(p) :
              run.loadErr # "none"
              => /\ Has(run, "CreateChatCompletion")
                 /\ run.reply # <<>> => Has(run, "sendText")

\* A value that is not a turn list was under the key, and the reply went
\* out all the same.
C9_Witness ==
    \E p \in Procs : \E run \in Finished(p) :
        /\ run.held = Garbage
        /\ run.loadErr = "decode conversation"
        /\ run.request = <<Turn(User, Oi)>>
        /\ run.calls = <<"redis.Get", "CreateChatCompletion", "redis.Set", "sendText">>
        /\ run.err = "none"

\* C10: GetConversation on a key Redis does not hold returns the empty
\* history and no error; it returns an error only when the GET failed or
\* the value held is not the JSON of a turn list.
C10_AbsentKeyIsEmptyHistory ==
    \A p \in Procs : \A run \in Runs(p) :
        Has(run, "redis.Get")
        => /\ (run.held.kind = "absent" /\ ~run.getFails)
              => run.loadErr = "none" /\ run.loaded = <<>>
           /\ run.loadErr # "none"
              => run.getFails \/ run.held.kind = "garbage"

\* A key Redis does not hold was read without error as the empty history,
\* and the conversation is the new User turn alone.
C10_Witness ==
    \E p \in Procs : \E run \in Runs(p) :
        /\ Has(run, "redis.Get")
        /\ run.held = Absent
        /\ ~run.getFails
        /\ run.loadErr = "none"
        /\ run.loaded = <<>>
        /\ run.conversation = <<Turn(User, run.userInput)>>

\* C11: a run whose save failed goes on to dispatch the reply as text: the
\* failure is logged, and the error the run returns is that of the text
\* dispatch, whatever the save did.
C11_SaveFailureNotPropagated ==
    \A p \in Procs :
        /\ \A run \in Runs(p) :
              run.saveErr # "none"
              => /\ run.reply # <<>>
                 /\ \E i \in 1..Len(run.log) : run.log[i] = "conversation save failed"
        /\ \A run \in Current(p) :
              run.saveErr # "none" => proc[p].pc = "sendText"
        /\ \A run \in Finished(p) :
              Has(run, "redis.Set")
              => /\ run.calls[Len(run.calls)] = "sendText"
                 /\ run.err = run.sendErr

\* The save failed, the reply was sent, and the run returned nil.
C11_Witness ==
    \E p \in Procs : \E run \in Finished(p) :
        /\ run.saveErr = "redis io"
        /\ run.calls = <<"redis.Get", "CreateChatCompletion", "redis.Set", "sendText">>
        /\ run.sendErr = "none"
        /\ run.err = "none"

\* The POSTs of one call of SendAudioMessage, in the order they were made.
Posts(run) == run.attempts

\* C12: the n-th POST of SendAudioMessage carries the n-th payload shape, and
\* every POST but the last one made was answered with the owned-media error:
\* nothing is posted after a 2xx or after a failure of another class, and
\* while the loop is still running every answer so far was that error.
C12_ShapesInOrderUntilDecided ==
    \A p \in Procs :
        /\ \A run \in Runs(p) :
              \A n \in 1..Len(Posts(run)) :
                  /\ Posts(run)[n].shape = n - 1
                  /\ n < Len(Posts(run)) => IsOwnedMediaError(Posts(run)[n].outcome)
        /\ \A run \in Current(p) :
              proc[p].pc = "sendAudio"
              => /\ run.idx = Len(Posts(run))
                 /\ \A n \in 1..Len(Posts(run)) : IsOwnedMediaError(Posts(run)[n].outcome)

\* Two shapes were refused with the owned-media error, the third was
\* acknowledged, and nothing was posted after it.
C12_Witness ==
    \E p \in Procs : \E run \in Finished(p) :
        /\ Len(Posts(run)) = 3
        /\ Posts(run)[1].outcome = "Owned Media"
        /\ Posts(run)[2].outcome = "owned media"
        /\ Posts(run)[3] = [shape |-> 2, outcome |-> "2xx"]

\* C13: SendAudioMessage makes at most five POSTs and has returned once the
\* fifth is answered; it returns nil exactly when its last POST was
\* acknowledged, and otherwise the error of its last POST, which is the
\* fifth one when every shape was refused with the owned-media error.
C13_AtMostFivePostsLastDecides ==
    \A p \in Procs :
        /\ \A run \in Runs(p) : Len(Posts(run)) <= 5
        /\ \A run \in Current(p) :
              proc[p].pc = "sendAudio" => Len(Posts(run)) < 5
        /\ \A run \in Finished(p) :
              Posts(run) # <<>>
              => LET last == Posts(run)[Len(Posts(run))]
                 IN  /\ run.audioErr = "none" <=> last.outcome = "2xx"
                     /\ last.outcome # "2xx" => run.audioErr = last.outcome
                     /\ ~IsOwnedMediaError(last.outcome) \/ Len(Posts(run)) = 5

\* All five shapes were refused with the owned-media error, the fifth with a
\* text of its own, and that text is the error returned.
C13_Witness ==
    \E p \in Procs : \E run \in Finished(p) :
        /\ Len(Posts(run)) = 5
        /\ \A n \in 1..4 : Posts(run)[n].outcome = "owned media"
        /\ Posts(run)[5].outcome = "Owned Media"
        /\ run.audioErr = "Owned Media"

\* The request is a messages.upsert all of whose entries, or whose single
\* entry, have fromMe = true.
AllSelfSent(req) ==
    /\ req.handler = "webhook"
    /\ req.method = "POST"
    /\ req.decodable
    /\ req.payload.Event = "messages.upsert"
    /\ req.payload.Data.valid
    /\ IF req.payload.Data.Messages # <<>>
       THEN \A i \in 1..Len(req.payload.Data.Messages) :
                req.payload.Data.Messages[i].Key.FromMe
       ELSE req.payload.Data.Key.FromMe

\* C14: the run of an entry with fromMe = true is over before any external
\* call, and a messages.upsert made of such entries only is answered without
\* any run having called the completion API, the store or the gateway.
C14_SelfSentCausesNoAction ==
    \A p \in Procs :
        /\ \A run \in Current(p) : ~run.entry.Key.FromMe
        /\ \A run \in Finished(p) : run.entry.Key.FromMe => run.calls = <<>>
        /\ AllSelfSent(proc[p].req)
           => /\ proc[p].pc = "done"
              /\ proc[p].ret = "none"
              /\ \A run \in Runs(p) : run.calls = <<>>

\* A batch of two self-sent entries was handled: no run made a call.
C14_Witness ==
    \E p \in Procs :
        /\ AllSelfSent(proc[p].req)
        /\ Len(proc[p].req.payload.Data.Messages) = 2
        /\ proc[p].pc = "done"
        /\ \A run \in Runs(p) : run.calls = <<>>

\* C15: normalizing a normalized id changes nothing: the id the history is
\* stored under, which is the normalization of the recipient, which is
\* itself the normalization of a raw id, is that recipient.
C15_NormalizationIdempotent ==
    \A p \in Procs : \A run \in Runs(p) :
        proc[p].handler = "webhook" => run.normalizedID = run.recipient

\* C16: whichever identity field carries it and whichever raw form it has
\* (with or without '+', domain suffix and surrounding spaces), a bare id d
\* resolves to the recipient d and to the history stored under d.
C16_RawFormsShareOneKey ==
    \A p \in Procs : \A d \in BareIds : \A x \in RawForms(d) : \A field \in IdFields :
        proc[p].req = IdRequest(field, x)
        => /\ proc[p].pc = "get"
           /\ proc[p].cur.recipient = d
           /\ proc[p].cur.normalizedID = d
           /\ key(proc[p].cur.normalizedID) = <<"conversation:">> \o d

\* The envelope sender " +57@s " was resolved to the bare id 57.
C16_Witness ==
    \E p \in Procs :
        /\ proc[p].req = IdRequest("sender", <<" ", "+", "5", "7", "@", "s", " ">>)
        /\ proc[p].cur.recipient = <<"5", "7">>
        /\ proc[p].cur.normalizedID = <<"5", "7">>

\* The run resolved its recipient from the candidates c in their order: the
\* normalization of the first candidate whose normalization is non-empty,
\* and no recipient, and no call, when there is none.
ResolvedInOrder(run, c) ==
    /\ (\A i \in 1..Len(c) : normalizeWhatsAppID(c[i]) = <<>>)
       => run.recipient = <<>> /\ run.calls = <<>>
    /\ \A i \in 1..Len(c) :
          (/\ normalizeWhatsAppID(c[i]) # <<>>
           /\ \A j \in 1..(i - 1) : normalizeWhatsAppID(c[j]) = <<>>)
          => run.recipient = normalizeWhatsAppID(c[i])

\* The runs of processWebhookMessage that came to resolve a sender.
Resolving(p) ==
    IF proc[p].handler = "webhook"
    THEN {run \in Runs(p) : run.userInput # <<>> /\ ~run.entry.Key.FromMe}
    ELSE {}

\* C17 as stated, over the identity fields processWebhookMessage reads: the
\* message-level sender is tried before the envelope-level sender, and the
\* delivery-key remote id after both.
C17_MessageSenderFirst ==
    \A p \in Procs : \A run \in Resolving(p) :
        ResolvedInOrder(run, <<run.entry.Message.From, proc[p].sender,
                               run.entry.Key.RemoteJID>>)

\* C17, amended: the candidates are the delivery-key remote id, the
\* message-level sender and the envelope-level sender, tried in that order;
\* the first whose normalization is non-empty is returned normalized, so a
\* candidate that normalizes to empty is skipped and an earlier candidate
\* wins over a later one.
C17_DeliveryKeyFirst ==
    \A p \in Procs : \A run \in Resolving(p) :
        ResolvedInOrder(run, <<run.entry.Key.RemoteJID, run.entry.Message.From,
                               proc[p].sender>>)

\* The delivery-key remote id "@s" normalizes to empty and was skipped; the
\* message-level sender won over the envelope-level one.
C17_Witness ==
    \E p \in Procs : \E run \in Resolving(p) :
        /\ run.entry.Key.RemoteJID = <<"@", "s">>
        /\ run.entry.Message.From = <<"6">>
        /\ proc[p].sender = <<"7">>
        /\ run.recipient = <<"6">>

\* The text of a field behind pointers, "" when one of them is nil.
ExtendedTextMessageText(msg) ==
    IF msg.ExtendedTextMessage = Nil THEN <<>> ELSE msg.ExtendedTextMessage[1].Text

SelectedDisplayText(msg) ==
    IF msg.ButtonsResponseMessage = Nil THEN <<>>
    ELSE msg.ButtonsResponseMessage[1].SelectedDisplayText

SelectedButtonID(msg) ==
    IF msg.ButtonsResponseMessage = Nil THEN <<>>
    ELSE msg.ButtonsResponseMessage[1].SelectedButtonID

InteractiveBodyText(msg) ==
    IF msg.InteractiveResponseMessage = Nil THEN <<>>
    ELSE IF msg.InteractiveResponseMessage[1].Body = Nil THEN <<>>
    ELSE msg.InteractiveResponseMessage[1].Body[1].Text

\* The run took for its text the first candidate of c that is not blank,
\* trimmed, and no text, making no call, when every candidate is blank.
ExtractedInOrder(run, c) ==
    /\ (\A i \in 1..Len(c) : TrimSpace(c[i]) = <<>>)
       <=> run.userInput = <<>>
    /\ run.userInput = <<>> => run.calls = <<>>
    /\ \A i \in 1..Len(c) :
          (/\ TrimSpace(c[i]) # <<>>
           /\ \A j \in 1..(i - 1) : TrimSpace(c[j]) = <<>>)
          => run.userInput = TrimSpace(c[i])

\* The runs of processWebhookMessage.
Extracting(p) == IF proc[p].handler = "webhook" THEN Runs(p) ELSE {}

\* C18 as stated: the conversation text is tried before the generic text
\* field.
C18_ConversationBeforeText ==
    \A p \in Procs : \A run \in Extracting(p) :
        LET msg == run.entry.Message
        IN  ExtractedInOrder(run,
                <<msg.Body, msg.Conversation, msg.Text, msg.ExtendedText,
                  ExtendedTextMessageText(msg), SelectedDisplayText(msg),
                  SelectedButtonID(msg), InteractiveBodyText(msg)>>)

\* C18, amended: the text is the trimmed value of the first non-blank
\* candidate in the order plain body, generic text field, conversation text,
\* extended-text field, nested extended-text message text, quick-reply
\* selection text, quick-reply selection id, interactive-body text; a blank
\* candidate never wins over a later non-blank one and the text is empty
\* exactly when every candidate is blank.
C18_TextBeforeConversation ==
    \A p \in Procs : \A run \in Extracting(p) :
        LET msg == run.entry.Message
        IN  ExtractedInOrder(run,
                <<msg.Body, msg.Text, msg.Conversation, msg.ExtendedText,
                  ExtendedTextMessageText(msg), SelectedDisplayText(msg),
                  SelectedButtonID(msg), InteractiveBodyText(msg)>>)

\* The body was blank, the generic text field and the conversation text were
\* both set, and the trimmed generic text was taken.
C18_Witness ==
    \E p \in Procs : \E run \in Extracting(p) :
        /\ run.entry.Message.Body = <<" ">>
        /\ run.entry.Message.Text = <<" ", "t", " ">>
        /\ run.entry.Message.Conversation = <<" ", "c", " ">>
        /\ run.userInput = <<"t">>

\* strings.ToLower of a message type.
LowerType(type) ==
    CASE type \in {"AUDIO", "Audio"} -> "audio"
      [] type \in {"PTT", "Ptt"} -> "ptt"
      [] OTHER -> type

\* The message has no audio, or an audio without a URL.
NoAudioURL(msg) == msg.Audio = Nil \/ msg.Audio[1].URL = <<>>

\* The runs of handleIncomingMessage for a message with a sender.
Incoming(p) ==
    IF proc[p].handler = "legacy"
    THEN {run \in Runs(p) : run.entry.Message.From # <<>>}
    ELSE {}

\* The run ended with the missing-URL error before any external call.
FailedMissingURL(p, run) ==
    /\ run \in Finished(p)
    /\ run.err = "audio message missing url"
    /\ run.calls = <<>>

\* C19 as stated: a message whose type is "audio" or "ptt" in any casing and
\* whose audio URL is absent or empty fails with the missing-URL error
\* before any transcription, completion or gateway call.
C19_AnyCasingIsAudio ==
    \A p \in Procs : \A run \in Incoming(p) :
        (LowerType(run.entry.Message.Type) \in {"audio", "ptt"}
         /\ NoAudioURL(run.entry.Message))
        => FailedMissingURL(p, run)

\* C19, amended: the type is compared as given. A message of type "audio" or
\* "ptt" without an audio URL fails with the missing-URL error before any
\* call; a message of any other type, other casings of the two included, is
\* handled as text: it is never transcribed and never fails for a missing
\* URL.
C19_ExactTypeIsAudio ==
    \A p \in Procs : \A run \in Incoming(p) :
        /\ (run.entry.Message.Type \in {"audio", "ptt"} /\ NoAudioURL(run.entry.Message))
           => FailedMissingURL(p, run)
        /\ run.entry.Message.Type \notin {"audio", "ptt"}
           => /\ ~Has(run, "transcribe")
              /\ proc[p].pc # "transcribe"
              /\ run.err # "audio message missing url"

\* A "ptt" message whose audio has an empty URL was refused before any call.
C19_Witness ==
    \E p \in Procs : \E run \in Incoming(p) :
        /\ run.entry.Message.Type = "ptt"
        /\ run.entry.Message.Audio = <<[URL |-> <<>>]>>
        /\ FailedMissingURL(p, run)

\* The run failed after an external call: a transcription, a completion or
\* a text dispatch failed.
InternalError(run) == run.err # "none" /\ run.calls # <<>>

\* C20: a POST with a decodable envelope is answered 500 when a run of its
\* processing ended in an internal error, 200 when every run succeeded or
\* was skipped, and never 200 when a text dispatch failed.
C20_StatusReportsOutcome ==
    \A p \in Procs :
        (/\ proc[p].pc = "done"
         /\ proc[p].req.method = "POST"
         /\ proc[p].req.decodable)
        => /\ (\E run \in Finished(p) : InternalError(run))
              => proc[p].status = 500
           /\ (proc[p].ret = "none" /\ \A run \in Finished(p) : run.err = "none")
              => proc[p].status = 200
           /\ \A run \in Finished(p) :
                 run.sendErr # "none" => proc[p].status # 200

\* The turns the store held for the sender when the run loaded them, oldest
\* first; none when the load failed or the value was not a turn list.
PriorTurns(run) ==
    IF ~run.getFails /\ run.held.kind = "json" THEN run.held.msgs ELSE <<>>

\* C21 as stated: every completion request is the system preamble, then the
\* stored prior turns, then the new User turn.
C21_PreambleHistoryUserTurn ==
    \A p \in Procs : \A run \in Runs(p) :
        Has(run, "CreateChatCompletion")
        => run.request = <<SystemTurn>> \o PriorTurns(run)
                         \o <<Turn(User, run.userInput)>>

\* C21, amended: generateAssistantReply passes the stored prior turns oldest
\* first and then the new User turn as the last element, without a system
\* preamble; buildChatReply passes the system preamble and the new User
\* turn, without prior turns.
C21_HistoryThenUserTurn ==
    \A p \in Procs : \A run \in Runs(p) :
        Has(run, "CreateChatCompletion")
        => IF proc[p].handler = "webhook"
           THEN /\ run.request = PriorTurns(run) \o <<Turn(User, run.userInput)>>
                /\ \A i \in 1..Len(run.request) : run.request[i].role # "system"
           ELSE run.request = <<SystemTurn, Turn(User, run.userInput)>>

\* The completion request of a sender with twenty stored turns: the first
\* of them at the head, the new User turn in 21st place.
C21_Witness ==
    \E p \in Procs : \E run \in Runs(p) :
        /\ proc[p].handler = "webhook"
        /\ Has(run, "CreateChatCompletion")
        /\ Len(run.request) = 21
        /\ run.request[1] = PriorTurn(1)
        /\ run.request[21] = Turn(User, Oi)

\* The run saved its history.
Saved(run) == Has(run, "redis.Set") /\ run.saveErr = "none"

\* C22: whenever the value of a key changes, a goroutine at its save has
\* replaced it by its own complete list, the truncation of the history it
\* loaded earlier extended by its two turns, whatever the key held just
\* before: the last save wins and no stored value mixes two writes.
C22_LastSaveWins ==
    [][\A k \in Keys :
          store'[k] # store[k]
          => \E p \in Procs :
                /\ proc[p].pc = "set"
                /\ key(proc[p].cur.normalizedID) = k
                /\ proc'[p].pc = "sendText"
                /\ store'[k] = Marshal(Truncate(proc[p].cur.conversation))
                /\ proc[p].cur.conversation =
                      PriorTurns(proc[p].cur)
                      \o <<Turn(User, proc[p].cur.userInput),
                           Turn(Assistant, proc[p].cur.reply)>>]_vars

\* A lost update: two events of the sender 5 loaded the same empty history,
\* both saved, and the store holds the exchange of one of them only.
C22_Witness ==
    \E p, q \in Procs : \E r1 \in Finished(p) : \E r2 \in Finished(q) :
        /\ p # q
        /\ r1.normalizedID = IdA /\ r2.normalizedID = IdA
        /\ Saved(r1) /\ Saved(r2)
        /\ r1.held = Absent /\ r2.held = Absent
        /\ r1.userInput = <<"h", "i">> /\ r2.userInput = Oi
        /\ store[key(IdA)] = Marshal(r2.conversation)
        /\ Len(store[key(IdA)].msgs) = 2
        /\ \A i \in 1..Len(store[key(IdA)].msgs) :
              store[key(IdA)].msgs[i].content # <<"h", "i">>

\* Goroutine p takes its step from pc at, for the key k.
StepsAt(p, at, k) ==
    /\ proc[p].pc = at
    /\ proc'[p] # proc[p]
    /\ key(proc[p].cur.normalizedID) = k

\* C23: a successful save leaves its key with 24 hours to live; nothing but
\* a successful save gives a key more time than it had, a load least of
\* all; a key whose time is over is held no more, and a load that finds it
\* so goes on with the empty history.
C23_SaveRestartsLifetime ==
    [][\A k \in Keys :
          /\ \A p \in Procs :
                (StepsAt(p, "set", k) /\ proc'[p].cur.saveErr = "none")
                => lifetime'[k] = 24
          /\ lifetime'[k] > lifetime[k]
             => \E p \in Procs :
                   StepsAt(p, "set", k) /\ proc'[p].cur.saveErr = "none"
          /\ \A p \in Procs :
                StepsAt(p, "get", k)
                => /\ lifetime'[k] = lifetime[k]
                   /\ lifetime[k] = 0
                      => proc'[p].cur.conversation
                            = <<Turn(User, proc[p].cur.userInput)>>
          /\ lifetime'[k] = 0 => store'[k] = Absent]_vars

\* The history of the sender 5 was let expire, and the load of a later
\* event found nothing: its completion request is the new User turn alone.
C23_Witness ==
    \E p \in Procs : \E run \in Runs(p) :
        /\ run.normalizedID = IdA
        /\ Has(run, "CreateChatCompletion")
        /\ ~run.getFails
        /\ run.held = Absent
        /\ run.request = <<Turn(User, Oi)>>

NotSelfSent(e) == ~e.Key.FromMe

\* The entries of the batch that are not self-sent, in list order.
ToProcess(req) == SelectSeq(req.payload.Data.Messages, NotSelfSent)

\* The entries goroutine p has taken up so far, in the order it did.
TakenUp(p) ==
    [i \in 1..Len(proc[p].outs) |-> proc[p].outs[i].entry]
    \o (IF proc[p].pc = "done" THEN <<>> ELSE <<proc[p].cur.entry>>)

\* C24: in a batch the entries taken up are the non-self-sent entries in
\* list order, one after the other; a run that meets no failure and has a
\* reply makes all four calls; and when the batch is done every such entry
\* was taken up, whatever error the runs before it returned, and the batch
\* returns nil.
C24_BatchInOrderPastErrors ==
    \A p \in Procs :
        proc[p].mode = "batch"
        => LET es == ToProcess(proc[p].req)
           IN  /\ Len(TakenUp(p)) <= Len(es)
               /\ TakenUp(p) = SubSeq(es, 1, Len(TakenUp(p)))
               /\ \A run \in Finished(p) :
                     (run.err = "none" /\ run.reply # <<>>)
                     => run.calls = <<"redis.Get", "CreateChatCompletion",
                                      "redis.Set", "sendText">>
               /\ proc[p].pc = "done"
                  => /\ Len(proc[p].outs) = Len(es)
                     /\ proc[p].ret = "none"
                     /\ proc[p].status = 200

\* The completion failed for the first entry of the batch and the text
\* dispatch for the second: both were processed and the batch returned nil.
C24_Witness ==
    \E p \in Procs :
        /\ proc[p].mode = "batch"
        /\ proc[p].pc = "done"
        /\ Len(proc[p].outs) = 2
        /\ proc[p].outs[1].err = "openai error"
        /\ proc[p].outs[2].err = "evolution API error"
        /\ proc[p].outs[2].normalizedID = IdB
        /\ proc[p].ret = "none"

\* The turns are User, Assistant, User, Assistant, ... and end on Assistant.
Alternating(msgs) ==
    /\ Len(msgs) % 2 = 0
    /\ \A i \in 1..Len(msgs) :
          msgs[i].role = IF i % 2 = 1 THEN User ELSE Assistant

\* C25: with the store holding nothing but what this program wrote, every
\* history in it has an even number of turns, User and Assistant in strict
\* alternation from the first to the last, under every interleaving of the
\* two goroutines and after every truncation.
C25_StoredHistoryAlternates ==
    \A k \in Keys : store[k].kind = "json" => Alternating(store[k].msgs)

\* A history of 22 turns was truncated to 20 on its save: what the store
\* holds starts with a User turn and ends with the reply just given.
C25_Witness ==
    \E p \in Procs : \E run \in Runs(p) :
        /\ Saved(run)
        /\ Len(run.conversation) = 22
        /\ store[key(run.normalizedID)] = Marshal(Truncate(run.conversation))
        /\ Len(store[key(run.normalizedID)].msgs) = 20
        /\ store[key(run.normalizedID)].msgs[1].role = User
        /\ store[key(run.normalizedID)].msgs[20] = Turn(Assistant, run.reply)

\* The runs of processWebhookMessage whose text dispatch is due or done.
Dispatching(p) ==
    IF proc[p].handler = "webhook"
    THEN {run \in Runs(p) : Has(run, "sendText")}
         \cup {run \in Current(p) : proc[p].pc = "sendText"}
    ELSE {}

\* The save was attempted before the text dispatch.
SaveAttemptedFirst(run) ==
    \E i \in 1..Len(run.calls) :
        /\ run.calls[i] = "redis.Set"
        /\ \A j \in 1..i : run.calls[j] # "sendText"

\* The store holds the history of the run, its Assistant turn last.
HoldsAssistantTurn(run) ==
    LET held == store[key(run.normalizedID)]
    IN  /\ held.kind = "json"
        /\ held.msgs # <<>>
        /\ held.msgs[Len(held.msgs)] = Turn(Assistant, run.reply)

C27_FailedLoadThenSaveKeepsTwoTurns ==
    [][\A p \in Procs :
          (/\ proc[p].pc = "set"
           /\ proc'[p].pc = "sendText"
           /\ proc[p].cur.loadErr # "none"
           /\ proc'[p].cur.saveErr = "none")
          => store'[key(proc[p].cur.normalizedID)]
                = Marshal(<<Turn(User, proc[p].cur.userInput),
                            Turn(Assistant, proc[p].cur.reply)>>)]_vars

\* The key held twenty turns, the load failed in transport, the save went
\* through: the key holds the two new turns and the twenty are gone.
C27_Witness ==
    \E p \in Procs : \E run \in Runs(p) :
        /\ run.getFails
        /\ run.loadErr = "redis io"
        /\ run.held = Marshal(Prior(maxMessages))
        /\ Saved(run)
        /\ store[key(run.normalizedID)]
              = Marshal(<<Turn(User, run.userInput), Turn(Assistant, run.reply)>>)

\* The response carries no reply: the call failed, there is no choice, or
\* the first choice is empty or blank.
CarriesNoReply(resp) ==
    \/ resp.err
    \/ Len(resp.choices) = 0
    \/ TrimSpace(resp.choices[1]) = <<>>

\* C28: the load and the completion call of a run change neither the store
\* nor the lifetime of any key; a run whose completion call brings no reply
\* ends there, having made no save and no dispatch; and a save is made only
\* by a run that has a reply.
C28_NoReplyLeavesStore ==
    [][\A p \in Procs :
          /\ (proc[p].pc \in {"get", "completion"} /\ proc'[p] # proc[p])
             => store' = store /\ lifetime' = lifetime
          /\ (proc[p].pc = "completion" /\ proc'[p] # proc[p])
             => LET ended == proc'[p].pc = "done"
                    run   == IF ended THEN proc'[p].outs[Len(proc'[p].outs)]
                             ELSE proc'[p].cur
                IN  CarriesNoReply(run.resp)
                    => /\ ended
                       /\ run.reply = <<>>
                       /\ ~Has(run, "redis.Set")
                       /\ ~Has(run, "sendText")
          /\ (proc[p].pc = "set" /\ proc'[p] # proc[p])
             => ~CarriesNoReply(proc[p].cur.resp)]_vars

\* The sender 5 had a history with 3 hours left; the completion call of
\* the event returned a blank choice, and history and lifetime are as they
\* were.
C28_Witness ==
    \E p \in Procs : \E run \in Finished(p) :
        /\ run.normalizedID = IdA
        /\ run.resp = [err |-> FALSE, choices |-> << <<" ">> >>]
        /\ run.calls = <<"redis.Get", "CreateChatCompletion">>
        /\ run.held = Marshal(Prior(2))
        /\ store[key(IdA)] = Marshal(Prior(2))
        /\ lifetime[key(IdA)] = 3

====
